---------------------------- MODULE Spec2Model ----------------------------
(***************************************************************************)
(* The text-layout engine of hotas_map.py: word_wrap, word_wrap_2, the     *)
(* font / character-width caches and the font-size search of               *)
(* add_boxed_text.                                                         *)
(*                                                                         *)
(* A string is a sequence of one-character strings.  A font object is the  *)
(* record [ttf, size] that ImageFont.truetype(ttf, size) stands for.  The  *)
(* metrics of a font (font.getsize, draw.textsize) are the external        *)
(* capability of the program; they are given here by metric tables.        *)
(***************************************************************************)
EXTENDS Integers, Sequences, FiniteSets, TLC

VARIABLES
    text,                \* the text argument
    width,               \* word_wrap: the width argument
    font,                \* the font argument of word_wrap / local of add_boxed_text
    lines,               \* word_wrap: the returned list of lines
    relines,             \* word_wrap of the returned lines joined by "\n"
    wpc,                 \* position of the caller of word_wrap
    CHAR_WIDTH_CACHE,    \* module-level cache (c, font) -> width
    FONT_CACHE,          \* module-level cache (ttf, fontsize) -> font
    pc,                  \* position of add_boxed_text
    wrap,                \* add_boxed_text: the wrap argument
    boxwidth,            \* add_boxed_text: boxcoords[2]
    boxheight,           \* add_boxed_text: boxcoords[3]
    ttf,                 \* add_boxed_text: the ttf argument
    font_trial_step_size, \* add_boxed_text: the font_trial_step_size argument
    base_fontsize,       \* add_boxed_text: local base_fontsize
    fontsize,            \* add_boxed_text: local fontsize
    successful_sizes,    \* add_boxed_text: local list
    unsuccessful_sizes,  \* add_boxed_text: local list
    cache_font,          \* add_boxed_text: local dict fontsize -> font
    cache_wrapped,       \* add_boxed_text: local dict fontsize -> wrapped text
    outtext,             \* add_boxed_text: local text once the size is chosen
    drawn,               \* what draw.multiline_text was given, with its extent
    showrect,            \* add_boxed_text: the showrect argument
    hjust,               \* add_boxed_text, add_label: the hjust argument
    vjust,               \* add_boxed_text, add_label: the vjust argument
    boxleft,             \* add_boxed_text: boxcoords[0]
    boxtop,              \* add_boxed_text: boxcoords[1]
    x,                   \* add_label: the x argument
    y,                   \* add_label: the y argument
    rectangle,           \* what draw.rectangle was given
    truetype_calls,      \* (ttf, fontsize) -> calls of ImageFont.truetype so far
    getsize_calls,       \* (c, font) -> calls of font.getsize so far
    cpc,                 \* position of the caller of get_font / get_char_width
    pending,             \* word_wrap: the lines of text.splitlines() still to do
    loop                 \* word_wrap: the locals tokens, index, start and total

wrapvars == <<width, lines, relines, wpc, pending, loop>>
argvars == <<wrap, boxwidth, boxheight, ttf, font_trial_step_size, base_fontsize,
             showrect, hjust, vjust, boxleft, boxtop, x, y>>
drawvars == <<drawn, rectangle>>
callvars == <<truetype_calls, getsize_calls, cpc>>
searchvars == <<fontsize, successful_sizes, unsuccessful_sizes, cache_font,
                cache_wrapped>>
vars == <<text, width, font, lines, relines, wpc, CHAR_WIDTH_CACHE, FONT_CACHE,
          pc, wrap, boxwidth, boxheight, ttf, font_trial_step_size,
          base_fontsize, fontsize, successful_sizes, unsuccessful_sizes,
          cache_font, cache_wrapped, outtext, drawn, showrect, hjust, vjust,
          boxleft, boxtop, x, y, rectangle, truetype_calls, getsize_calls, cpc,
          pending, loop>>

---------------------------------------------------------------------------
(* Bounds of the model *)

MaxLen == 5        \* longest enumerated text given to word_wrap
MaxWidth == 4      \* largest enumerated width budget of word_wrap
MaxFitLen == 3     \* longest enumerated text given to add_boxed_text
MaxBox == 3        \* box sides run up to MaxBox * BoxStep
BoxStep == 7       \* distance between two enumerated box sides
FloorDepth == 1    \* the search is followed down to font size -FloorDepth
MaxFontSize == 45  \* the search is followed up to this font size
BaseBelow == 8     \* other starting sizes of the search: from 16 - BaseBelow
BaseAbove == 2     \* ... to 16 + BaseAbove
MaxOrigin == 3     \* box origins are 0 and MaxOrigin; anchors lie around them
MaxLoads == 5      \* calls of the font loader followed in a sequence of calls

\* base_fontsize = 16
BaseFontSize == 16

\* font_trial_step_size: int = 5
DefaultStep == 5

---------------------------------------------------------------------------
(* Characters and strings *)

Alphabet == {"a", "b", " ", "\n"}

\* \s of RE_WHITESPACE, restricted to the characters of the model
IsSpace(c) == c \in {" ", "\n", "\t"}

Texts == UNION {[1..n -> Alphabet] : n \in 0..MaxLen}

RECURSIVE Concat(_)
\* "".join(seq)
Concat(seq) == IF seq = <<>> THEN <<>> ELSE Head(seq) \o Concat(Tail(seq))

RECURSIVE JoinWith(_, _)
\* sep.join(seq) for a one-character separator
JoinWith(sep, seq) ==
    IF seq = <<>> THEN <<>>
    ELSE IF Len(seq) = 1 THEN seq[1]
    ELSE seq[1] \o <<sep>> \o JoinWith(sep, Tail(seq))

RECURSIVE SplitOn(_, _, _)
\* str.split(sep) for a one-character separator: cur is the piece being read
SplitOn(sep, s, cur) ==
    IF s = <<>> THEN <<cur>>
    ELSE IF Head(s) = sep THEN <<cur>> \o SplitOn(sep, Tail(s), <<>>)
    ELSE SplitOn(sep, Tail(s), Append(cur, Head(s)))

\* str.splitlines(): the pieces between line breaks; no last piece after a
\* final line break, and no piece at all for the empty string
splitlines(s) ==
    LET pieces == SplitOn("\n", s, <<>>)
    IN  IF pieces[Len(pieces)] = <<>> THEN SubSeq(pieces, 1, Len(pieces) - 1)
        ELSE pieces

RECURSIVE LStrip(_)
LStrip(s) == IF s # <<>> /\ IsSpace(Head(s)) THEN LStrip(Tail(s)) ELSE s

RECURSIVE RStrip(_)
RStrip(s) ==
    IF s # <<>> /\ IsSpace(s[Len(s)]) THEN RStrip(SubSeq(s, 1, Len(s) - 1))
    ELSE s

\* strip that leaves the whitespace at the end
LStripOnly(s) == LStrip(s)

\* str.strip()
strip(s) == RStrip(LStrip(s))

RECURSIVE ReSplit(_, _, _, _)
\* RE_WHITESPACE.split(line): non-whitespace pieces (possibly empty at either
\* end) alternating with the whitespace runs between them
ReSplit(s, toks, cur, inWs) ==
    IF s = <<>> THEN (IF inWs THEN toks \o <<cur, <<>>>> ELSE Append(toks, cur))
    ELSE IF IsSpace(Head(s)) = inWs
         THEN ReSplit(Tail(s), toks, Append(cur, Head(s)), inWs)
         ELSE ReSplit(Tail(s), Append(toks, cur), <<Head(s)>>, ~inWs)

pattern_split(line) == ReSplit(line, <<>>, <<>>, FALSE)

---------------------------------------------------------------------------
(* Fonts and their metrics (the external TextMetrics provider) *)

\* width of character c per unit of font size
Unit(t, c) ==
    CASE t = "prop" -> (IF c = "b" THEN 2 ELSE 1)
      [] t = "wide" -> (IF c = " " THEN 2 ELSE 1)
      [] OTHER -> 1

\* pixels per unit at a font size.  A scalable font grows with its size
\* (a size below 1, where the loader accepts it, renders at the smallest
\* size); "window" and "island" are test fonts whose glyphs are small only at
\* some sizes: at 10 to 14, and up to 16 and again at 24.  "em20" is a font
\* whose glyphs are 20 pixels wide and high at size 16.
Scale(t, size) ==
    CASE t = "window" -> (IF size >= 10 /\ size <= 14 THEN 1 ELSE 1000)
      [] t = "em20" -> (IF size < 1 THEN 1 ELSE (size * 5) \div 4)
      [] t = "island" -> (IF size = 24 THEN 1 ELSE IF size < 1 THEN 1 ELSE size)
      [] OTHER -> (IF size < 1 THEN 1 ELSE size)

\* font.getsize(c)[0]
getsize_width(f, c) == Unit(f.ttf, c) * Scale(f.ttf, f.size)

\* the height of one line of text in a font
LineHeight(f) == Scale(f.ttf, f.size)

\* get_char_width(c, font): the cached width if there is one
get_char_width(c, f, cache) ==
    IF <<c, f>> \in DOMAIN cache THEN cache[<<c, f>>] ELSE getsize_width(f, c)

\* CHAR_WIDTH_CACHE after get_char_width(c, font) for every c of chars
CacheWidths(chars, f, cache) ==
    [k \in DOMAIN cache \cup {<<c, f>> : c \in chars} |->
        IF k \in DOMAIN cache THEN cache[k] ELSE getsize_width(k[2], k[1])]

Range(s) == {s[i] : i \in DOMAIN s}

\* the calls of font.getsize that get_char_width(c, font) for every c of
\* chars adds: one for each pair that is not in the cache
CountWidths(chars, f, cache, calls) ==
    LET new == {<<c, f>> : c \in chars} \ DOMAIN cache
    IN  [k \in DOMAIN calls \cup new |->
            (IF k \in DOMAIN calls THEN calls[k] ELSE 0)
                + (IF k \in new THEN 1 ELSE 0)]

---------------------------------------------------------------------------
(* word_wrap *)

RECURSIVE SumWidths(_, _)
\* sum(lookup[c] for c in token)
SumWidths(token, lookup) ==
    IF token = <<>> THEN 0
    ELSE lookup[Head(token)] + SumWidths(Tail(token), lookup)

\* tokens[start:end] joined; indices count from 0 as in the source
JoinTokens(tokens, start, end) ==
    Concat(SubSeq(tokens, start + 1, IF end > Len(tokens) THEN Len(tokens) ELSE end))

\* the test of the wrap loop: the token does not fit behind the running total
Exceeds(total, tokenwidth, w) == total + tokenwidth > w

\* LineEnd with its two cases swapped
LineEndSwapped(index, start) == IF index = start THEN index ELSE index + 2

\* where the output line ends: behind an over-wide first token and its
\* whitespace, else before the token that does not fit
LineEnd(index, start) == IF index = start THEN index + 2 ELSE index

\* NextTotal that forgets the whitespace behind the token
NextTotalNoSpace(total, widths, index) == total + widths[index + 1]

\* the running total after a token is placed, with the whitespace behind it
NextTotal(total, widths, index) == total + widths[index + 1] + widths[index + 2]

RECURSIVE WrapLoop(_, _, _, _, _, _, _)
\* for index in range(0, len(tokens), 2): ...  returns <<start, lines>>
WrapLoop(tokens, widths, w, index, start, total, out) ==
    IF index >= Len(tokens) THEN <<start, out>>
    ELSE IF Exceeds(total, widths[index + 1], w)
         THEN LET end == LineEnd(index, start)
                  out2 == Append(out, JoinTokens(tokens, start, end))
              IN  IF end = index + 2
                  THEN WrapLoop(tokens, widths, w, index + 2, end, 0, out2)
                  ELSE WrapLoop(tokens, widths, w, index + 2, end,
                                NextTotal(0, widths, index), out2)
         ELSE WrapLoop(tokens, widths, w, index + 2, start,
                       NextTotal(total, widths, index), out)

\* FlushTail that drops the tokens left behind the last closed line
FlushTailNone(tokens, start, out) == out

\* if start < len(tokens): lines.append("".join(tokens[start:]))
FlushTail(tokens, start, out) ==
    IF start < Len(tokens)
    THEN Append(out, JoinTokens(tokens, start, Len(tokens)))
    ELSE out

\* the body of "for line in text.splitlines()" for one line
WrapLine(line, w, lookup) ==
    LET tokens == Append(pattern_split(line), <<>>)
        widths == [i \in 1..Len(tokens) |-> SumWidths(tokens[i], lookup)]
        r == WrapLoop(tokens, widths, w, 0, 0, 0, <<>>)
    IN  FlushTail(tokens, r[1], r[2])

RECURSIVE WrapLines(_, _, _)
WrapLines(ls, w, lookup) ==
    IF ls = <<>> THEN <<>>
    ELSE WrapLine(Head(ls), w, lookup) \o WrapLines(Tail(ls), w, lookup)

\* OrEmptyLine that returns the empty list as it is
OrEmptyLineNone(ls) == ls

\* lines or [""]
OrEmptyLine(ls) == IF ls = <<>> THEN << <<>> >> ELSE ls

word_wrap(t, w, f, cache) ==
    LET lookup == [c \in Range(t) |-> get_char_width(c, f, cache)]
        raw == WrapLines(splitlines(t), w, lookup)
    IN  OrEmptyLine([i \in 1..Len(raw) |-> strip(raw[i])])

\* word_wrap_2 that wraps the text as it is
word_wrap_2_as_is(t, w, f, cache) == JoinWith("\n", word_wrap(t, w, f, cache))

\* word_wrap_2: line breaks become spaces, the lines come back joined
word_wrap_2(t, w, f, cache) ==
    LET flat == JoinWith(" ", SplitOn("\n", t, <<>>))
    IN  JoinWith("\n", word_wrap(flat, w, f, cache))

---------------------------------------------------------------------------
(* Justification.  A justification (hjust, vjust) is a fraction <<n, d>>     *)
(* with d > 0; a coordinate computed from it is a fraction as well.         *)

\* justify_to_point that adds the item's share
justify_to_point_plus(point, itemsize, just) ==
    <<point * just[2] + itemsize * just[1], just[2]>>

\* point - itemsize * just
justify_to_point(point, itemsize, just) ==
    <<point * just[2] - itemsize * just[1], just[2]>>

\* justify_to_box that leaves the item size out
justify_to_box_start(boxstart, boxsize, itemsize, just) ==
    <<boxstart * just[2] + boxsize * just[1], just[2]>>

\* boxstart + (boxsize - itemsize) * just
justify_to_box(boxstart, boxsize, itemsize, just) ==
    <<boxstart * just[2] + (boxsize - itemsize) * just[1], just[2]>>

\* get_align_from_hjust with the two bounds strict
get_align_strict(just) ==
    IF 4 * just[1] < just[2] THEN "left"
    ELSE IF 4 * just[1] > 3 * just[2] THEN "right"
    ELSE "center"

\* hjust <= 0.25: "left"; hjust >= 0.75: "right"; else "center"
get_align_from_hjust(just) ==
    IF 4 * just[1] <= just[2] THEN "left"
    ELSE IF 4 * just[1] >= 3 * just[2] THEN "right"
    ELSE "center"

\* the defaults of add_boxed_text: showrect = False, hjust = vjust = 0.5;
\* the box at the origin
DefaultLayout ==
    /\ showrect = FALSE
    /\ hjust = <<1, 2>>
    /\ vjust = <<1, 2>>
    /\ boxleft = 0
    /\ boxtop = 0
    /\ x = 0
    /\ y = 0

---------------------------------------------------------------------------
(* A caller of word_wrap: wraps a text, then joins the lines it got with    *)
(* line breaks and wraps them again at the same width and font.            *)

WrapFonts == {[ttf |-> t, size |-> 1] : t \in {"prop", "wide"}}

\* the ten-letter word of the end-to-end wrapping scenario of the
\* specification, wrapped to 45 pixels in a font 10 pixels wide per character
ScenarioText == <<"A", "B", "C", "D", "E", "F", "G", "H", "I", "J">>

IsScenario == text = ScenarioText /\ width = 45 /\ font = [ttf |-> "mono", size |-> 10]

InitWrap ==
    /\ \/ /\ text \in Texts
          /\ width \in 0..MaxWidth
          /\ font \in WrapFonts
       \/ IsScenario
    /\ lines = <<>>
    /\ relines = <<>>
    /\ wpc = "input"
    /\ CHAR_WIDTH_CACHE = <<>>
    /\ FONT_CACHE = <<>>
    /\ pc = "idle"
    /\ DefaultLayout
    /\ wrap = FALSE
    /\ boxwidth = 0
    /\ boxheight = 0
    /\ ttf = font.ttf
    /\ font_trial_step_size = DefaultStep
    /\ base_fontsize = BaseFontSize
    /\ fontsize = BaseFontSize
    /\ successful_sizes = <<>>
    /\ unsuccessful_sizes = <<>>
    /\ cache_font = <<>>
    /\ cache_wrapped = <<>>
    /\ outtext = <<>>
    /\ drawn = <<>>
    /\ rectangle = <<>>
    /\ truetype_calls = <<>>
    /\ getsize_calls = <<>>
    /\ cpc = "idle"
    /\ pending = <<>>
    /\ loop = <<>>

CallWordWrap ==
    /\ wpc = "input"
    /\ lines' = word_wrap(text, width, font, CHAR_WIDTH_CACHE)
    /\ CHAR_WIDTH_CACHE' = CacheWidths(Range(text), font, CHAR_WIDTH_CACHE)
    /\ wpc' = "wrapped"
    /\ getsize_calls' = CountWidths(Range(text), font, CHAR_WIDTH_CACHE, getsize_calls)
    /\ UNCHANGED <<truetype_calls, cpc, pending, loop>>
    /\ UNCHANGED <<text, width, font, relines, FONT_CACHE, pc, argvars,
                   searchvars, outtext, drawvars>>

CallReWrap ==
    /\ wpc = "wrapped"
    /\ relines' = word_wrap(JoinWith("\n", lines), width, font, CHAR_WIDTH_CACHE)
    /\ CHAR_WIDTH_CACHE' =
           CacheWidths(Range(JoinWith("\n", lines)), font, CHAR_WIDTH_CACHE)
    /\ wpc' = "rewrapped"
    /\ getsize_calls' = CountWidths(Range(JoinWith("\n", lines)), font,
                                    CHAR_WIDTH_CACHE, getsize_calls)
    /\ UNCHANGED <<truetype_calls, cpc, pending, loop>>
    /\ UNCHANGED <<text, width, font, lines, FONT_CACHE, pc, argvars,
                   searchvars, outtext, drawvars>>

\* the caller calls word_wrap_2 and keeps the string it returns in outtext,
\* as add_boxed_text does
CallWordWrap2 ==
    /\ wpc = "input"
    /\ outtext' = word_wrap_2(text, width, font, CHAR_WIDTH_CACHE)
    /\ CHAR_WIDTH_CACHE' =
           CacheWidths(Range(JoinWith(" ", SplitOn("\n", text, <<>>))), font,
                       CHAR_WIDTH_CACHE)
    /\ getsize_calls' =
           CountWidths(Range(JoinWith(" ", SplitOn("\n", text, <<>>))), font,
                       CHAR_WIDTH_CACHE, getsize_calls)
    /\ wpc' = "wrapped2"
    /\ UNCHANGED <<text, width, font, lines, relines, pending, loop, FONT_CACHE, pc,
                   argvars, searchvars, drawvars, truetype_calls, cpc>>

NextWrap == CallWordWrap \/ CallReWrap \/ CallWordWrap2

SpecWrap == InitWrap /\ [][NextWrap]_vars

---------------------------------------------------------------------------
(* word_wrap step by step: one action for each iteration of its two loops   *)

loopfixed == <<text, width, font, relines, FONT_CACHE, pc, argvars, searchvars,
               outtext, drawvars, truetype_calls, cpc>>

\* lines 1112 to 1114: the widths of the characters of the text are looked up
WrapBegin ==
    /\ wpc = "input"
    /\ lines' = <<>>
    /\ CHAR_WIDTH_CACHE' = CacheWidths(Range(text), font, CHAR_WIDTH_CACHE)
    /\ getsize_calls' = CountWidths(Range(text), font, CHAR_WIDTH_CACHE, getsize_calls)
    /\ pending' = splitlines(text)
    /\ wpc' = "lines"
    /\ UNCHANGED <<loopfixed, loop>>

\* widths = [sum(lookup[c] for c in token) for token in tokens]
WidthsOf(toks) ==
    [i \in 1..Len(toks) |->
        SumWidths(toks[i],
                  [c \in Range(text) |-> get_char_width(c, font, CHAR_WIDTH_CACHE)])]

\* WrapNextLine that keeps the running total of the line before
WrapNextLineKeepsTotal ==
    /\ wpc = "lines"
    /\ pending # <<>>
    /\ loop' = [tokens |-> Append(pattern_split(Head(pending)), <<>>),
                index |-> 0, start |-> 0,
                total |-> IF loop = <<>> THEN 0 ELSE loop.total]
    /\ pending' = Tail(pending)
    /\ wpc' = "loop"
    /\ UNCHANGED <<loopfixed, lines, CHAR_WIDTH_CACHE, getsize_calls>>

\* lines 1116 to 1120: the next line of the text is split into tokens
WrapNextLine ==
    /\ wpc = "lines"
    /\ pending # <<>>
    /\ loop' = [tokens |-> Append(pattern_split(Head(pending)), <<>>),
                index |-> 0, start |-> 0, total |-> 0]
    /\ pending' = Tail(pending)
    /\ wpc' = "loop"
    /\ UNCHANGED <<loopfixed, lines, CHAR_WIDTH_CACHE, getsize_calls>>

\* lines 1121 to 1128: one iteration of "for index in range(0, len(tokens), 2)"
WrapStep ==
    /\ wpc = "loop"
    /\ loop.index < Len(loop.tokens)
    /\ LET widths == WidthsOf(loop.tokens)
           end == LineEnd(loop.index, loop.start)
       IN  IF Exceeds(loop.total, widths[loop.index + 1], width)
           THEN /\ lines' = Append(lines, JoinTokens(loop.tokens, loop.start, end))
                /\ loop' = [loop EXCEPT
                               !.index = @ + 2,
                               !.start = end,
                               !.total = IF end = loop.index + 2 THEN 0
                                         ELSE NextTotal(0, widths, loop.index)]
           ELSE /\ lines' = lines
                /\ loop' = [loop EXCEPT
                               !.index = @ + 2,
                               !.total = NextTotal(loop.total, widths, loop.index)]
    /\ UNCHANGED <<loopfixed, pending, wpc, CHAR_WIDTH_CACHE, getsize_calls>>

\* lines 1129 to 1130: the tokens behind the last closed line
WrapFlush ==
    /\ wpc = "loop"
    /\ loop.index >= Len(loop.tokens)
    /\ lines' = FlushTail(loop.tokens, loop.start, lines)
    /\ wpc' = "lines"
    /\ UNCHANGED <<loopfixed, pending, loop, CHAR_WIDTH_CACHE, getsize_calls>>

\* lines 1131 to 1132: the lines are stripped and returned
WrapReturn ==
    /\ wpc = "lines"
    /\ pending = <<>>
    /\ lines' = OrEmptyLine([i \in 1..Len(lines) |-> strip(lines[i])])
    /\ wpc' = "wrapped"
    /\ UNCHANGED <<loopfixed, pending, loop, CHAR_WIDTH_CACHE, getsize_calls>>

NextLoop ==
    \/ WrapBegin
    \/ WrapNextLine
    \/ WrapStep
    \/ WrapFlush
    \/ WrapReturn

SpecLoop == InitWrap /\ [][NextLoop]_vars

---------------------------------------------------------------------------
(* get_font and draw.textsize *)

\* ImageFont.truetype(ttf, fontsize), the external loader: TRUE when it
\* returns a font, FALSE when it raises.  No font has a size below 1: there
\* the loader raises or, where the build's FreeType raises the size to its
\* minimum instead, returns a font.
truetype(t, size) == IF size >= 1 THEN {TRUE} ELSE {TRUE, FALSE}

\* the outcomes of get_font(ttf, fontsize): a cached font is returned
\* without a call of the loader
get_font(t, size, fc) ==
    IF <<t, size>> \in DOMAIN fc THEN {TRUE} ELSE truetype(t, size)

\* FONT_CACHE after a get_font(ttf, fontsize) that returned
CacheFont(t, size, fc) ==
    [k \in DOMAIN fc \cup {<<t, size>>} |->
        IF k \in DOMAIN fc THEN fc[k] ELSE [ttf |-> t, size |-> size]]

\* no call of the loader yet for a key
NoCalls == [returned |-> 0, raised |-> 0]

CallsOf(calls, k) == IF k \in DOMAIN calls THEN calls[k] ELSE NoCalls

\* the calls of the loader after a get_font(ttf, fontsize) in which the
\* loader, if called, returned a font (ok) or raised
CountLoad(t, size, fc, calls, ok) ==
    IF <<t, size>> \in DOMAIN fc THEN calls
    ELSE [k \in DOMAIN calls \cup {<<t, size>>} |->
            IF k # <<t, size>> THEN calls[k]
            ELSE IF ok
                 THEN [CallsOf(calls, k) EXCEPT !.returned = @ + 1]
                 ELSE [CallsOf(calls, k) EXCEPT !.raised = @ + 1]]

\* dict d after d[key] = value
DictSet(d, key, value) ==
    [k \in DOMAIN d \cup {key} |-> IF k = key THEN value ELSE d[k]]

RECURSIVE TextWidth(_, _)
\* the width of a string without line breaks: the sum of its characters'
TextWidth(line, f) ==
    IF line = <<>> THEN 0
    ELSE getsize_width(f, Head(line)) + TextWidth(Tail(line), f)

RECURSIVE MaxTextWidth(_, _)
MaxTextWidth(ls, f) ==
    IF ls = <<>> THEN 0
    ELSE LET w == TextWidth(Head(ls), f)
             rest == MaxTextWidth(Tail(ls), f)
         IN  IF w > rest THEN w ELSE rest

\* draw.textsize(text, font): the widest line and the sum of the line
\* heights; the empty string has no extent
textsize(t, f) ==
    IF t = <<>> THEN <<0, 0>>
    ELSE LET ls == SplitOn("\n", t, <<>>)
         IN  <<MaxTextWidth(ls, f), Len(ls) * LineHeight(f)>>

\* TooBig with "and" for "or"
TooBigBoth(size, bw, bh) == size[1] > bw /\ size[2] > bh

\* textwidth > boxwidth or textheight > boxheight
TooBig(size, bw, bh) == size[1] > bw \/ size[2] > bh

\* InList that finds nothing
InListNever(v, list) == FALSE

InList(v, list) == \E i \in DOMAIN list : list[i] = v

---------------------------------------------------------------------------
(* add_boxed_text *)

\* the texts given to add_boxed_text: letters and spaces, and some texts
\* with line breaks
FitTexts ==
    UNION {[1..n -> {"a", " "}] : n \in 0..MaxFitLen}
        \cup {<<"\n">>, <<"a", "\n">>, <<"a", "\n", "a">>}

\* box sides: none, a single pixel, and multiples of BoxStep
BoxSides == {0, 1} \cup {k * BoxStep : k \in 1..MaxBox}

\* box coordinates with a negative side
NegativeBox ==
    /\ boxwidth \in BoxSides \cup {0 - 1}
    /\ boxheight \in BoxSides \cup {0 - 1}
    /\ boxwidth < 0 \/ boxheight < 0

StepSizes == {1, DefaultStep}

\* the fonts whose glyphs are small only at some sizes
TestFonts == {"window", "island"}

InitArgs ==
    /\ \/ ttf = "prop"
       \/ ttf \in TestFonts
    /\ \/ boxwidth \in BoxSides /\ boxheight \in BoxSides
       \/ NegativeBox
    /\ text \in FitTexts
    /\ wrap \in BOOLEAN
    /\ font_trial_step_size \in StepSizes

InitLocals ==
    /\ pc = "call"
    /\ fontsize = 0
    /\ successful_sizes = <<>>
    /\ unsuccessful_sizes = <<>>
    /\ cache_font = <<>>
    /\ cache_wrapped = <<>>
    /\ outtext = <<>>
    /\ drawn = <<>>
    /\ rectangle = <<>>
    /\ truetype_calls = <<>>
    /\ getsize_calls = <<>>
    /\ cpc = "idle"
    /\ pending = <<>>
    /\ loop = <<>>
    /\ font = <<>>
    /\ CHAR_WIDTH_CACHE = <<>>
    /\ FONT_CACHE = <<>>
    /\ width = 0
    /\ lines = <<>>
    /\ relines = <<>>
    /\ wpc = "idle"

\* the scale-to-fit scenario of the specification: a text that measures
\* 200 x 20 at size 16, in a box of 100 x 20 or of 200 x 10
IsScaleScenario ==
    /\ text = ScenarioText
    /\ ttf = "em20"
    /\ wrap = FALSE
    /\ <<boxwidth, boxheight>> \in {<<100, 20>>, <<200, 10>>}

Init ==
    /\ \/ InitArgs
       \/ /\ boxwidth \in {100, 200}
          /\ boxheight = (IF boxwidth = 100 THEN 20 ELSE 10)
          /\ text = ScenarioText
          /\ ttf = "em20"
          /\ wrap = FALSE
          /\ font_trial_step_size = DefaultStep
    /\ base_fontsize = BaseFontSize
    /\ DefaultLayout
    /\ InitLocals

\* ReturnEmpty that draws the rectangle before it returns
ReturnEmptyShowsRect ==
    /\ pc = "call"
    /\ text = <<>>
    /\ pc' = "returned"
    /\ rectangle' =
           IF showrect
           THEN <<<<boxleft, boxtop>>, <<boxleft + boxwidth, boxtop + boxheight>>>>
           ELSE rectangle
    /\ UNCHANGED callvars
    /\ UNCHANGED <<text, font, wrapvars, CHAR_WIDTH_CACHE, FONT_CACHE, argvars,
                   searchvars, outtext, drawn>>

\* if not text: return
ReturnEmpty ==
    /\ pc = "call"
    /\ text = <<>>
    /\ pc' = "returned"
    /\ UNCHANGED callvars
    /\ UNCHANGED <<text, font, wrapvars, CHAR_WIDTH_CACHE, FONT_CACHE, argvars,
                   searchvars, outtext, drawvars>>

\* if wrap: the search starts at base_fontsize with empty caches and lists
BeginSearch ==
    /\ pc = "call"
    /\ text # <<>>
    /\ wrap
    /\ fontsize' = base_fontsize
    /\ successful_sizes' = <<>>
    /\ unsuccessful_sizes' = <<>>
    /\ cache_font' = <<>>
    /\ cache_wrapped' = <<>>
    /\ pc' = "search"
    /\ UNCHANGED callvars
    /\ UNCHANGED <<text, font, wrapvars, CHAR_WIDTH_CACHE, FONT_CACHE, argvars,
                   outtext, drawvars>>

\* the search is followed between these sizes
InModelRange(size) == size >= 0 - FloorDepth /\ size <= MaxFontSize

\* StepDown in steps of two
StepDownTwo(size) == size - 2

\* fontsize -= 1
StepDown(size) == size - 1

\* fontsize += font_trial_step_size
StepUp(size, step) == size + step

\* while fontsize not in successful_sizes: if fontsize in unsuccessful_sizes:
\* fontsize -= 1; continue
SearchSkip ==
    /\ pc = "search"
    /\ InModelRange(fontsize)
    /\ ~InList(fontsize, successful_sizes)
    /\ InList(fontsize, unsuccessful_sizes)
    /\ fontsize' = StepDown(fontsize)
    /\ UNCHANGED callvars
    /\ UNCHANGED <<text, font, wrapvars, CHAR_WIDTH_CACHE, FONT_CACHE, pc, argvars,
                   successful_sizes, unsuccessful_sizes, cache_font,
                   cache_wrapped, outtext, drawvars>>

\* an untried size: get_font raises
SearchLoadFails ==
    /\ pc = "search"
    /\ InModelRange(fontsize)
    /\ ~InList(fontsize, successful_sizes)
    /\ ~InList(fontsize, unsuccessful_sizes)
    /\ FALSE \in get_font(ttf, fontsize, FONT_CACHE)
    /\ pc' = "error"
    /\ truetype_calls' = CountLoad(ttf, fontsize, FONT_CACHE, truetype_calls, FALSE)
    /\ UNCHANGED <<getsize_calls, cpc>>
    /\ UNCHANGED <<text, font, wrapvars, CHAR_WIDTH_CACHE, FONT_CACHE, argvars,
                   searchvars, outtext, drawvars>>

\* the font object of a size of the ttf argument
FontOf(size) == [ttf |-> ttf, size |-> size]

\* wrapped_text = word_wrap_2(text, boxwidth, font) at a size
WrappedAt(size) == word_wrap_2(text, boxwidth, FontOf(size), CHAR_WIDTH_CACHE)

\* whether the text, wrapped at a size, is too big for the box there
TooBigAt(size) ==
    TooBig(textsize(WrappedAt(size), FontOf(size)), boxwidth, boxheight)

\* the characters word_wrap_2 hands to word_wrap
FlatChars(t) == Range(JoinWith(" ", SplitOn("\n", t, <<>>)))

\* an untried size at which the wrapped text is too big for the box
SearchTooBig ==
    /\ pc = "search"
    /\ InModelRange(fontsize)
    /\ ~InList(fontsize, successful_sizes)
    /\ ~InList(fontsize, unsuccessful_sizes)
    /\ TRUE \in get_font(ttf, fontsize, FONT_CACHE)
    /\ TooBigAt(fontsize)
    /\ font' = FontOf(fontsize)
    /\ FONT_CACHE' = CacheFont(ttf, fontsize, FONT_CACHE)
    /\ CHAR_WIDTH_CACHE' =
           CacheWidths(FlatChars(text), FontOf(fontsize), CHAR_WIDTH_CACHE)
    /\ cache_font' = DictSet(cache_font, fontsize, FontOf(fontsize))
    /\ unsuccessful_sizes' = Append(unsuccessful_sizes, fontsize)
    /\ fontsize' = StepDown(fontsize)
    /\ truetype_calls' = CountLoad(ttf, fontsize, FONT_CACHE, truetype_calls, TRUE)
    /\ getsize_calls' = CountWidths(FlatChars(text), FontOf(fontsize),
                                    CHAR_WIDTH_CACHE, getsize_calls)
    /\ UNCHANGED cpc
    /\ UNCHANGED <<text, wrapvars, pc, argvars, successful_sizes, cache_wrapped,
                   outtext, drawvars>>

\* an untried size at which the wrapped text fits the box
SearchFits ==
    /\ pc = "search"
    /\ InModelRange(fontsize)
    /\ ~InList(fontsize, successful_sizes)
    /\ ~InList(fontsize, unsuccessful_sizes)
    /\ TRUE \in get_font(ttf, fontsize, FONT_CACHE)
    /\ ~TooBigAt(fontsize)
    /\ font' = FontOf(fontsize)
    /\ FONT_CACHE' = CacheFont(ttf, fontsize, FONT_CACHE)
    /\ CHAR_WIDTH_CACHE' =
           CacheWidths(FlatChars(text), FontOf(fontsize), CHAR_WIDTH_CACHE)
    /\ cache_font' = DictSet(cache_font, fontsize, FontOf(fontsize))
    /\ cache_wrapped' = DictSet(cache_wrapped, fontsize, WrappedAt(fontsize))
    /\ successful_sizes' = Append(successful_sizes, fontsize)
    /\ fontsize' = StepUp(fontsize, font_trial_step_size)
    /\ truetype_calls' = CountLoad(ttf, fontsize, FONT_CACHE, truetype_calls, TRUE)
    /\ getsize_calls' = CountWidths(FlatChars(text), FontOf(fontsize),
                                    CHAR_WIDTH_CACHE, getsize_calls)
    /\ UNCHANGED cpc
    /\ UNCHANGED <<text, wrapvars, pc, argvars, unsuccessful_sizes, outtext, drawvars>>

\* SearchDone that takes the first size that was successful
SearchDoneFirst ==
    /\ pc = "search"
    /\ InList(fontsize, successful_sizes)
    /\ fontsize' = successful_sizes[1]
    /\ font' = cache_font[successful_sizes[1]]
    /\ outtext' = cache_wrapped[successful_sizes[1]]
    /\ pc' = "fitted"
    /\ UNCHANGED callvars
    /\ UNCHANGED <<text, wrapvars, CHAR_WIDTH_CACHE, FONT_CACHE, argvars,
                   successful_sizes, unsuccessful_sizes, cache_font,
                   cache_wrapped, drawvars>>

\* the loop ends at a size known to be successful (lines 1321 to 1323)
SearchDone ==
    /\ pc = "search"
    /\ InList(fontsize, successful_sizes)
    /\ font' = cache_font[fontsize]
    /\ outtext' = cache_wrapped[fontsize]
    /\ pc' = "fitted"
    /\ UNCHANGED callvars
    /\ UNCHANGED <<text, wrapvars, CHAR_WIDTH_CACHE, FONT_CACHE, argvars, searchvars,
                   drawvars>>

\* IntDiv that rounds a quotient that is not whole away from zero
IntDivUp(a, b) ==
    LET abs(n) == IF n < 0 THEN 0 - n ELSE n
        q == (abs(a) + abs(b) - 1) \div abs(b)
    IN  IF (a < 0) = (b < 0) THEN q ELSE 0 - q

\* int(a / b) for b # 0: the quotient cut towards zero
IntDiv(a, b) ==
    LET abs(n) == IF n < 0 THEN 0 - n ELSE n
        q == abs(a) \div abs(b)
    IN  IF (a < 0) = (b < 0) THEN q ELSE 0 - q

\* a / b > c / d for b # 0 and d # 0
RatioGreater(a, b, c, d) ==
    IF (b < 0) = (d < 0) THEN a * d > c * b ELSE a * d < c * b

\* the size of the text at base_fontsize in scale-to-fit mode
BaseExtent == textsize(text, FontOf(base_fontsize))

\* the text is wider, as a proportion of the box, than tall
TooWide == RatioGreater(BaseExtent[1], boxwidth, BaseExtent[2], boxheight)

\* a division of lines 1331 to 1336 has a zero divisor
DividesByZero ==
    \/ boxwidth = 0
    \/ boxheight = 0
    \/ TooWide /\ BaseExtent[1] = 0
    \/ ~TooWide /\ BaseExtent[2] = 0

\* the size scale-to-fit computes
ScaledSize ==
    IF TooWide THEN IntDiv(base_fontsize * boxwidth, BaseExtent[1])
    ELSE IntDiv(base_fontsize * boxheight, BaseExtent[2])

\* not wrap: the text is measured at base_fontsize and the size rescaled
ScaleToFit ==
    /\ pc = "call"
    /\ text # <<>>
    /\ ~wrap
    /\ ~DividesByZero
    /\ TRUE \in get_font(ttf, ScaledSize, CacheFont(ttf, base_fontsize, FONT_CACHE))
    /\ fontsize' = ScaledSize
    /\ font' = FontOf(ScaledSize)
    /\ FONT_CACHE' = CacheFont(ttf, ScaledSize, CacheFont(ttf, base_fontsize, FONT_CACHE))
    /\ outtext' = text
    /\ pc' = "fitted"
    /\ truetype_calls' =
           CountLoad(ttf, ScaledSize, CacheFont(ttf, base_fontsize, FONT_CACHE),
                     CountLoad(ttf, base_fontsize, FONT_CACHE, truetype_calls, TRUE), TRUE)
    /\ UNCHANGED <<getsize_calls, cpc>>
    /\ UNCHANGED <<text, wrapvars, CHAR_WIDTH_CACHE, argvars, successful_sizes,
                   unsuccessful_sizes, cache_font, cache_wrapped, drawvars>>

\* not wrap: a ratio or a quotient divides by zero (ZeroDivisionError)
ScaleDividesByZero ==
    /\ pc = "call"
    /\ text # <<>>
    /\ ~wrap
    /\ DividesByZero
    /\ font' = FontOf(base_fontsize)
    /\ FONT_CACHE' = CacheFont(ttf, base_fontsize, FONT_CACHE)
    /\ pc' = "error"
    /\ truetype_calls' = CountLoad(ttf, base_fontsize, FONT_CACHE, truetype_calls, TRUE)
    /\ UNCHANGED <<getsize_calls, cpc>>
    /\ UNCHANGED <<text, wrapvars, CHAR_WIDTH_CACHE, argvars, searchvars, outtext,
                   drawvars>>

\* not wrap: get_font raises for the computed size
ScaleLoadFails ==
    /\ pc = "call"
    /\ text # <<>>
    /\ ~wrap
    /\ ~DividesByZero
    /\ FALSE \in get_font(ttf, ScaledSize, CacheFont(ttf, base_fontsize, FONT_CACHE))
    /\ fontsize' = ScaledSize
    /\ font' = FontOf(base_fontsize)
    /\ FONT_CACHE' = CacheFont(ttf, base_fontsize, FONT_CACHE)
    /\ pc' = "error"
    /\ truetype_calls' =
           CountLoad(ttf, ScaledSize, CacheFont(ttf, base_fontsize, FONT_CACHE),
                     CountLoad(ttf, base_fontsize, FONT_CACHE, truetype_calls, TRUE), FALSE)
    /\ UNCHANGED <<getsize_calls, cpc>>
    /\ UNCHANGED <<text, wrapvars, CHAR_WIDTH_CACHE, argvars, successful_sizes,
                   unsuccessful_sizes, cache_font, cache_wrapped, outtext, drawvars>>

\* the text is measured in the chosen font and drawn (lines 1338 to 1354)
Draw ==
    /\ pc = "fitted"
    /\ rectangle' =
           IF showrect
           THEN <<<<boxleft, boxtop>>, <<boxleft + boxwidth, boxtop + boxheight>>>>
           ELSE rectangle
    /\ drawn' = [text |-> outtext, font |-> font,
                 textwidth |-> textsize(outtext, font)[1],
                 textheight |-> textsize(outtext, font)[2],
                 xy |-> <<justify_to_box(boxleft, boxwidth,
                                         textsize(outtext, font)[1], hjust),
                          justify_to_box(boxtop, boxheight,
                                         textsize(outtext, font)[2], vjust)>>,
                 align |-> get_align_from_hjust(hjust)]
    /\ pc' = "done"
    /\ UNCHANGED callvars
    /\ UNCHANGED <<text, font, wrapvars, CHAR_WIDTH_CACHE, FONT_CACHE, argvars,
                   searchvars, outtext>>

Next ==
    \/ ReturnEmpty
    \/ BeginSearch
    \/ SearchSkip
    \/ SearchLoadFails
    \/ SearchTooBig
    \/ SearchFits
    \/ SearchDone
    \/ ScaleToFit
    \/ ScaleDividesByZero
    \/ ScaleLoadFails
    \/ Draw

Spec == Init /\ [][Next]_vars

\* The wrapping-mode search of add_boxed_text started from other sizes than
\* the 16 of line 1290, which the specification makes an option of the fitter
\* (base_font_size, default 16).
InitBase ==
    /\ ttf = "window"
    /\ boxwidth \in BoxSides \ {0}
    /\ boxheight \in BoxSides \ {0}
    /\ text \in FitTexts \ {<<>>}
    /\ wrap = TRUE
    /\ font_trial_step_size \in StepSizes
    /\ base_fontsize \in (BaseFontSize - BaseBelow)..(BaseFontSize + BaseAbove)
    /\ DefaultLayout
    /\ InitLocals

NextBase ==
    \/ BeginSearch
    \/ SearchSkip
    \/ SearchLoadFails
    \/ SearchTooBig
    \/ SearchFits
    \/ SearchDone
    \/ Draw

SpecBase == InitBase /\ [][NextBase]_vars

---------------------------------------------------------------------------
(* add_label, and the calls of add_boxed_text and add_label with other      *)
(* justifications, box origins and anchors than the defaults                *)

\* the font sizes add_label is called with
LabelSizes == {0, 1, BaseFontSize}

\* add_label(img, text, x, y, ttf, size, rgb, hjust, vjust)
AddLabel ==
    /\ pc = "call"
    /\ \E size \in LabelSizes :
          /\ TRUE \in get_font(ttf, size, FONT_CACHE)
          /\ fontsize' = size
          /\ font' = FontOf(size)
          /\ FONT_CACHE' = CacheFont(ttf, size, FONT_CACHE)
          /\ truetype_calls' = CountLoad(ttf, size, FONT_CACHE, truetype_calls, TRUE)
          /\ drawn' = [text |-> text, font |-> FontOf(size),
                       textwidth |-> textsize(text, FontOf(size))[1],
                       textheight |-> textsize(text, FontOf(size))[2],
                       xy |-> <<justify_to_point(
                                    x, textsize(text, FontOf(size))[1], hjust),
                                justify_to_point(
                                    y, textsize(text, FontOf(size))[2], vjust)>>,
                       align |-> get_align_from_hjust(hjust)]
    /\ pc' = "labelled"
    /\ UNCHANGED <<getsize_calls, cpc>>
    /\ UNCHANGED <<text, wrapvars, CHAR_WIDTH_CACHE, argvars, successful_sizes,
                   unsuccessful_sizes, cache_font, cache_wrapped, outtext,
                   rectangle>>

\* add_label: get_font raises
AddLabelLoadFails ==
    /\ pc = "call"
    /\ \E size \in LabelSizes :
          /\ FALSE \in get_font(ttf, size, FONT_CACHE)
          /\ fontsize' = size
          /\ truetype_calls' = CountLoad(ttf, size, FONT_CACHE, truetype_calls, FALSE)
    /\ pc' = "label_error"
    /\ UNCHANGED <<getsize_calls, cpc>>
    /\ UNCHANGED <<text, font, wrapvars, CHAR_WIDTH_CACHE, FONT_CACHE, argvars,
                   successful_sizes, unsuccessful_sizes, cache_font,
                   cache_wrapped, outtext, drawvars>>

\* justifications: 0, 0.1, 0.25, 0.3, 0.5, 0.75, 0.9 and 1
Justs == {<<0, 1>>, <<1, 10>>, <<1, 4>>, <<3, 10>>, <<1, 2>>, <<3, 4>>, <<9, 10>>,
          <<1, 1>>}

\* the justifications that are whole or a half
MainJusts == {<<0, 1>>, <<1, 2>>, <<1, 1>>}

\* box origins and label anchors
Origins == {0, MaxOrigin}
Anchors == {0 - MaxOrigin, MaxOrigin + 1}

LayoutTexts == {<<>>, <<"a">>, <<"a", " ", "a">>}

InitLayout ==
    /\ ttf = "prop"
    /\ text \in LayoutTexts
    /\ boxwidth \in {BoxStep, 2 * BoxStep}
    /\ boxheight \in {BoxStep, 2 * BoxStep}
    /\ wrap \in BOOLEAN
    /\ font_trial_step_size = DefaultStep
    /\ base_fontsize = BaseFontSize
    /\ showrect \in BOOLEAN
    /\ hjust \in Justs
    /\ vjust \in MainJusts
    /\ boxleft \in Origins
    /\ boxtop \in Origins
    /\ x \in Anchors
    /\ y \in Anchors
    /\ InitLocals

NextLayout ==
    \/ ReturnEmpty
    \/ BeginSearch
    \/ SearchSkip
    \/ SearchTooBig
    \/ SearchFits
    \/ SearchDone
    \/ ScaleToFit
    \/ Draw
    \/ AddLabel
    \/ AddLabelLoadFails

SpecLayout == InitLayout /\ [][NextLayout]_vars

---------------------------------------------------------------------------
(* A caller of get_font and get_char_width: any sequence of calls, for      *)
(* the characters of CacheChars in the fonts it has got.  A call that       *)
(* raised is caught by the caller, which goes on calling.                   *)

CacheTtfs == {"prop", "wide"}
CacheSizes == {0, BaseFontSize}
CacheChars == {"a", " "}

RECURSIVE SumOver(_, _)
\* the sum of f[k] over the keys k of a set
SumOver(f, keys) ==
    IF keys = {} THEN 0
    ELSE LET k == CHOOSE j \in keys : TRUE
         IN  f[k] + SumOver(f, keys \ {k})

\* the number of calls of the loader so far
LoaderCalls ==
    SumOver([k \in DOMAIN truetype_calls |->
                truetype_calls[k].returned + truetype_calls[k].raised],
            DOMAIN truetype_calls)

InitCache ==
    /\ text = <<>>
    /\ width = 0
    /\ font = <<>>
    /\ lines = <<>>
    /\ relines = <<>>
    /\ wpc = "idle"
    /\ CHAR_WIDTH_CACHE = <<>>
    /\ FONT_CACHE = <<>>
    /\ pc = "idle"
    /\ DefaultLayout
    /\ wrap = FALSE
    /\ boxwidth = 0
    /\ boxheight = 0
    /\ ttf \in CacheTtfs
    /\ font_trial_step_size = DefaultStep
    /\ base_fontsize = BaseFontSize
    /\ fontsize = BaseFontSize
    /\ successful_sizes = <<>>
    /\ unsuccessful_sizes = <<>>
    /\ cache_font = <<>>
    /\ cache_wrapped = <<>>
    /\ outtext = <<>>
    /\ drawn = <<>>
    /\ rectangle = <<>>
    /\ truetype_calls = <<>>
    /\ getsize_calls = <<>>
    /\ cpc = "ready"
    /\ pending = <<>>
    /\ loop = <<>>

cachefixed == <<text, lines, relines, wpc, pending, loop, pc, argvars, successful_sizes,
                unsuccessful_sizes, cache_font, cache_wrapped, outtext, drawvars>>

\* GetFontRaises that asks the loader a second time before it gives up
GetFontRaisesAfterRetry ==
    /\ LoaderCalls + 1 < MaxLoads
    /\ \E size \in CacheSizes :
          /\ <<ttf, size>> \notin DOMAIN FONT_CACHE
          /\ FALSE \in truetype(ttf, size)
          /\ fontsize' = size
          /\ truetype_calls' =
                 CountLoad(ttf, size, FONT_CACHE,
                           CountLoad(ttf, size, FONT_CACHE, truetype_calls, FALSE),
                           FALSE)
    /\ cpc' = "raised"
    /\ UNCHANGED <<cachefixed, width, font, CHAR_WIDTH_CACHE, FONT_CACHE,
                   getsize_calls>>

\* get_font(ttf, size) for a key in FONT_CACHE: the cached font is returned
GetFontCached ==
    /\ \E size \in CacheSizes :
          /\ <<ttf, size>> \in DOMAIN FONT_CACHE
          /\ fontsize' = size
          /\ font' = FONT_CACHE[<<ttf, size>>]
    /\ cpc' = "returned"
    /\ UNCHANGED <<cachefixed, width, CHAR_WIDTH_CACHE, FONT_CACHE,
                   truetype_calls, getsize_calls>>

\* get_font(ttf, size) for a new key: the loader returns a font, which is
\* put into FONT_CACHE and returned
GetFontLoads ==
    /\ LoaderCalls < MaxLoads
    /\ \E size \in CacheSizes :
          /\ <<ttf, size>> \notin DOMAIN FONT_CACHE
          /\ TRUE \in truetype(ttf, size)
          /\ fontsize' = size
          /\ font' = FontOf(size)
          /\ FONT_CACHE' = CacheFont(ttf, size, FONT_CACHE)
          /\ truetype_calls' = CountLoad(ttf, size, FONT_CACHE, truetype_calls, TRUE)
    /\ cpc' = "returned"
    /\ UNCHANGED <<cachefixed, width, CHAR_WIDTH_CACHE, getsize_calls>>

\* get_font(ttf, size) for a new key: the loader raises, and so does get_font
GetFontRaises ==
    /\ LoaderCalls < MaxLoads
    /\ \E size \in CacheSizes :
          /\ <<ttf, size>> \notin DOMAIN FONT_CACHE
          /\ FALSE \in truetype(ttf, size)
          /\ fontsize' = size
          /\ truetype_calls' = CountLoad(ttf, size, FONT_CACHE, truetype_calls, FALSE)
    /\ cpc' = "raised"
    /\ UNCHANGED <<cachefixed, width, font, CHAR_WIDTH_CACHE, FONT_CACHE,
                   getsize_calls>>

\* GetCharWidth that measures although the width is cached
GetCharWidthAlwaysMeasures ==
    /\ font # <<>>
    /\ \E c \in CacheChars :
          /\ width' = getsize_width(font, c)
          /\ CHAR_WIDTH_CACHE' = CacheWidths({c}, font, CHAR_WIDTH_CACHE)
          /\ getsize_calls' = CountWidths({c}, font, <<>>, getsize_calls)
    /\ cpc' = "returned"
    /\ UNCHANGED <<cachefixed, font, fontsize, FONT_CACHE, truetype_calls>>

\* get_char_width(c, font) in the font the caller got last: the cached
\* width, or the width font.getsize gives, which is put into the cache
GetCharWidth ==
    /\ font # <<>>
    /\ \E c \in CacheChars :
          /\ width' = get_char_width(c, font, CHAR_WIDTH_CACHE)
          /\ CHAR_WIDTH_CACHE' = CacheWidths({c}, font, CHAR_WIDTH_CACHE)
          /\ getsize_calls' = CountWidths({c}, font, CHAR_WIDTH_CACHE, getsize_calls)
    /\ cpc' = "returned"
    /\ UNCHANGED <<cachefixed, font, fontsize, FONT_CACHE, truetype_calls>>

\* the caller turns to the other font file
OtherTtf ==
    /\ \E t \in CacheTtfs \ {ttf} : ttf' = t
    /\ UNCHANGED <<text, width, font, lines, relines, wpc, pending, loop,
                   CHAR_WIDTH_CACHE, FONT_CACHE, pc, wrap, boxwidth, boxheight, font_trial_step_size,
                   base_fontsize, showrect, hjust, vjust, boxleft, boxtop, x, y,
                   searchvars, outtext, drawvars, callvars>>

NextCache ==
    \/ GetFontCached
    \/ GetFontLoads
    \/ GetFontRaises
    \/ GetCharWidth
    \/ OtherTtf

SpecCache == InitCache /\ [][NextCache]_vars

---------------------------------------------------------------------------
(* Properties of word_wrap *)

RECURSIVE LineWidth(_, _)
\* the width of a line: the sum of the widths of its characters
LineWidth(line, f) ==
    IF line = <<>> THEN 0
    ELSE getsize_width(f, Head(line)) + LineWidth(Tail(line), f)

RECURSIVE Words(_, _)
\* the non-whitespace tokens of a string, in order: cur is the word being read
Words(s, cur) ==
    IF s = <<>> THEN (IF cur = <<>> THEN <<>> ELSE <<cur>>)
    ELSE IF IsSpace(Head(s))
         THEN (IF cur = <<>> THEN <<>> ELSE <<cur>>) \o Words(Tail(s), <<>>)
         ELSE Words(Tail(s), Append(cur, Head(s)))

RECURSIVE WordsOfLines(_)
\* the words read off a list of lines, line after line
WordsOfLines(ls) ==
    IF ls = <<>> THEN <<>> ELSE Words(Head(ls), <<>>) \o WordsOfLines(Tail(ls))

HasSpace(line) == \E i \in DOMAIN line : IsSpace(line[i])

\* a line that is one whole word of the text and nothing else
IsOneWordOf(line, t) ==
    /\ line # <<>>
    /\ ~HasSpace(line)
    /\ \E i \in DOMAIN Words(t, <<>>) : Words(t, <<>>)[i] = line

\* C1: every line word_wrap returns is at most `width` wide, unless the line
\* is exactly one word of the text that is itself wider than `width`.
C1_LinesFitOrSingleOverwideToken ==
    wpc = "wrapped" =>
        \A i \in DOMAIN lines :
            \/ LineWidth(lines[i], font) <= width
            \/ IsOneWordOf(lines[i], text)

\* C1 witness: a text without line breaks was wrapped into a line within the
\* budget and a line that is one over-wide word.
C1_Witness ==
    /\ wpc = "wrapped"
    /\ \A i \in DOMAIN text : text[i] # "\n"
    /\ \E i \in DOMAIN lines : lines[i] # <<>> /\ LineWidth(lines[i], font) <= width
    /\ \E i \in DOMAIN lines : LineWidth(lines[i], font) > width

\* C2: word_wrap returns at least one line, and for the empty text exactly
\* one line, the empty string.
C2_AtLeastOneLine ==
    wpc = "wrapped" =>
        /\ Len(lines) >= 1
        /\ text = <<>> => lines = << <<>> >>

\* C2 witness: the empty text has been wrapped.
C2_Witness == wpc = "wrapped" /\ text = <<>>

\* C3: the words read off the returned lines, in order, are the words of
\* the text: none lost, duplicated, reordered or split.
C3_WordsPreserved ==
    wpc = "wrapped" => WordsOfLines(lines) = Words(text, <<>>)

\* C3 witness: a text of three words was wrapped into at least two lines.
C3_Witness ==
    /\ wpc = "wrapped"
    /\ Len(Words(text, <<>>)) >= 3
    /\ Len(lines) >= 2
    /\ \A i \in DOMAIN text : text[i] # "\n"

\* the list of lines without its last line when that line is empty and is
\* not the only one
DropLastEmptyLine(ls) ==
    IF Len(ls) > 1 /\ ls[Len(ls)] = <<>> THEN SubSeq(ls, 1, Len(ls) - 1) ELSE ls

\* C4 as stated: wrapping the joined lines again gives the same lines.
C4_Original == wpc = "rewrapped" => relines = lines

\* C4 as amended: wrapping the joined lines again gives the same lines,
\* except that a last line that is empty (and not the only line) is gone.
C4_RewrapStableButLastEmptyLine ==
    wpc = "rewrapped" => relines = DropLastEmptyLine(lines)

\* C4 witness: a text without line breaks was wrapped into several lines
\* and wrapped again.
C4_Witness ==
    /\ wpc = "rewrapped"
    /\ Len(lines) >= 2
    /\ lines[Len(lines)] # <<>>
    /\ \A i \in DOMAIN text : text[i] # "\n"

\* C5 as stated: the ten-letter word wrapped to 45 pixels at 10 pixels per
\* character comes back in lines of at most 4 characters.
C5_Original ==
    (wpc = "wrapped" /\ IsScenario) => \A i \in DOMAIN lines : Len(lines[i]) <= 4

\* C5 as amended: the ten-letter word comes back whole, as the only line.
C5_WordKeptWhole ==
    (wpc = "wrapped" /\ IsScenario) => lines = <<ScenarioText>>

\* C5 witness: the scenario has been wrapped.
C5_Witness == wpc = "wrapped" /\ IsScenario

---------------------------------------------------------------------------
(* Properties of the font-size search of add_boxed_text *)

\* the text, wrapped to the box width at a size, is within the box there
FitsAt(size) ==
    LET extent == textsize(WrappedAt(size), FontOf(size))
    IN  extent[1] <= boxwidth /\ extent[2] <= boxheight

\* the search has ended and chosen its size
Chosen == wrap /\ pc \in {"fitted", "done"}

RECURSIVE MaxOf(_)
MaxOf(list) ==
    IF Len(list) = 1 THEN list[1]
    ELSE LET rest == MaxOf(Tail(list))
         IN  IF list[1] > rest THEN list[1] ELSE rest

\* fitting is monotone in the size: what fits at a size fits below it
FitIsMonotone == \A s \in 1..(MaxFontSize - 1) : FitsAt(s + 1) => FitsAt(s)

\* C6 as stated: the size the wrapping-mode search ends with is the largest
\* size at which the wrapped text fits the box: no larger size fits.
C6_Original ==
    Chosen => /\ FitsAt(fontsize)
              /\ \A s \in (fontsize + 1)..MaxFontSize : ~FitsAt(s)

\* C6 as amended: the wrapped text fits at the size the search ends with and
\* at none of the next font_trial_step_size sizes; no larger size fits at
\* all when fitting is monotone in the size.
C6_LargestWithinStep ==
    Chosen => /\ FitsAt(fontsize)
              /\ \A s \in (fontsize + 1)..(fontsize + font_trial_step_size) :
                     ~FitsAt(s)
              /\ FitIsMonotone =>
                     \A s \in (fontsize + 1)..MaxFontSize : ~FitsAt(s)

\* C6 witness: the search went down from 16, found a fitting size, probed
\* above it and came back to it.
C6_Witness ==
    /\ Chosen
    /\ fontsize < base_fontsize
    /\ Len(unsuccessful_sizes) > font_trial_step_size
    /\ FitIsMonotone

\* C7: with a step of at least 1, the size the search ends with is the
\* largest of the sizes recorded as successful.
C7_MaxOfSuccessful ==
    (Chosen /\ font_trial_step_size >= 1) => fontsize = MaxOf(successful_sizes)

\* C7 witness: the search ended after recording several successful sizes.
C7_Witness == Chosen /\ Len(successful_sizes) >= 3

\* the box-fit scenario: the wrapped text fits at the sizes 10 to 14 and at
\* no other size
FitsOnly10To14 ==
    \A s \in (0 - FloorDepth)..MaxFontSize : FitsAt(s) <=> (s >= 10 /\ s <= 14)

ProportionalFont == \A s \in 1..MaxFontSize : Scale(ttf, s) = s

DrawnFits == drawn.textwidth <= boxwidth /\ drawn.textheight <= boxheight

NothingFits == \A s \in 1..MaxFontSize : ~FitsAt(s)

\* C10: when the wrapped text fits at no size at or above the floor (the
\* smallest font size, 1), the search stops there: it neither fails nor goes
\* on to a size below the floor.
C10_StopsAtFloor ==
    (wrap /\ (pc = "error" \/ (pc = "search" /\ fontsize < 1))) => ~NothingFits

\* C11: the wrapping-mode search terminates: however far the search is
\* followed below size 1, the size it probes never gets to the end of that
\* range (it does not decrement without bound when no size fits), and it
\* never gets to the largest size followed (it does not increment without
\* bound).
C11_SearchIsBounded ==
    (wrap /\ pc = "search") =>
        (fontsize >= 0 - FloorDepth /\ fontsize <= MaxFontSize)

---------------------------------------------------------------------------
(* Properties of scale-to-fit *)

\* the extent of the text at the reference size 16
ReferenceExtent == textsize(text, [ttf |-> ttf, size |-> 16])

\* scale-to-fit has computed its size and loaded the font
Scaled == ~wrap /\ pc \in {"fitted", "done"}

\* C12: with positive box sides and text extent (w, h at size 16), the size
\* scale-to-fit chooses is floor(16 * boxwidth / w) when w / boxwidth >
\* h / boxheight, else floor(16 * boxheight / h); the 200 x 20 text gets size
\* 8 in the 100 x 20 box (width branch) and in the 200 x 10 box (height branch).
C12_ScaledSizeIsFloorOfRatio ==
    LET w == ReferenceExtent[1]
        h == ReferenceExtent[2]
        wider == w * boxheight > h * boxwidth
    IN  (Scaled /\ boxwidth > 0 /\ boxheight > 0 /\ w > 0 /\ h > 0) =>
            /\ wider => fontsize = (16 * boxwidth) \div w
            /\ ~wider => fontsize = (16 * boxheight) \div h
            /\ IsScaleScenario =>
                   /\ <<w, h>> = <<200, 20>>
                   /\ fontsize = 8
                   /\ wider <=> boxwidth = 100

\* C12 witness: the 200 x 20 text has been drawn in the 100 x 20 box.
C12_Witness ==
    /\ pc = "done"
    /\ IsScaleScenario
    /\ boxwidth = 100
    /\ drawn.font.size = 8

\* C13: in scale-to-fit mode a box with a side that is zero or negative
\* causes no division by zero: the call does not fail and the size stays the
\* reference size 16.
C13_DegenerateBoxKeepsReferenceSize ==
    (~wrap /\ text # <<>> /\ (boxwidth <= 0 \/ boxheight <= 0)
           /\ pc \in {"error", "fitted", "done"})
        => (pc # "error" /\ fontsize = 16)

---------------------------------------------------------------------------
(* Properties of the empty call and of justification *)

\* C14: add_boxed_text with the empty text only returns, in both modes and
\* with showrect set or not: it starts no search and no scaling, and when it
\* has returned no font is loaded, nothing is measured or wrapped, both
\* caches are as they were (empty) and no rectangle and no text is drawn.
C14_EmptyTextIsNoOp ==
    text = <<>> =>
        /\ pc \in {"call", "returned", "labelled", "label_error"}
        /\ pc = "returned" =>
               /\ FONT_CACHE = <<>>
               /\ CHAR_WIDTH_CACHE = <<>>
               /\ font = <<>>
               /\ fontsize = 0
               /\ cache_font = <<>>
               /\ cache_wrapped = <<>>
               /\ outtext = <<>>
               /\ rectangle = <<>>
               /\ drawn = <<>>

\* C14 witness: a call in wrapping mode with the empty text and showrect set
\* has returned.
C14_Witness == pc = "returned" /\ text = <<>> /\ showrect /\ wrap

\* the fraction r is n / d
IsFraction(r, n, d) == r[1] * d = n * r[2]

\* C15: add_label places its text at justify_to_point(p, s, just) =
\* p - s * just on each axis: at p for just = 0, at p - s for just = 1 and at
\* p - s / 2 for just = 0.5.
C15_JustifyToPoint ==
    pc = "labelled" =>
        LET w == drawn.textwidth
            h == drawn.textheight
        IN  /\ IsFraction(drawn.xy[1], x * hjust[2] - w * hjust[1], hjust[2])
            /\ IsFraction(drawn.xy[2], y * vjust[2] - h * vjust[1], vjust[2])
            /\ hjust = <<0, 1>> => IsFraction(drawn.xy[1], x, 1)
            /\ hjust = <<1, 1>> => IsFraction(drawn.xy[1], x - w, 1)
            /\ hjust = <<1, 2>> => IsFraction(drawn.xy[1], 2 * x - w, 2)
            /\ vjust = <<0, 1>> => IsFraction(drawn.xy[2], y, 1)
            /\ vjust = <<1, 1>> => IsFraction(drawn.xy[2], y - h, 1)
            /\ vjust = <<1, 2>> => IsFraction(drawn.xy[2], 2 * y - h, 2)

\* C15 witness: a label with a text of some width was centred on a negative
\* anchor.
C15_Witness ==
    /\ pc = "labelled"
    /\ hjust = <<1, 2>>
    /\ x < 0
    /\ drawn.textwidth > 1

\* C16: add_boxed_text places its text at justify_to_box(b, B, i, just) =
\* b + (B - i) * just on each axis: at b for just = 0 and at b + B - i for
\* just = 1.
C16_JustifyToBox ==
    pc = "done" =>
        LET w == drawn.textwidth
            h == drawn.textheight
        IN  /\ IsFraction(drawn.xy[1],
                          boxleft * hjust[2] + (boxwidth - w) * hjust[1], hjust[2])
            /\ IsFraction(drawn.xy[2],
                          boxtop * vjust[2] + (boxheight - h) * vjust[1], vjust[2])
            /\ hjust = <<0, 1>> => IsFraction(drawn.xy[1], boxleft, 1)
            /\ hjust = <<1, 1>> => IsFraction(drawn.xy[1], boxleft + boxwidth - w, 1)
            /\ vjust = <<0, 1>> => IsFraction(drawn.xy[2], boxtop, 1)
            /\ vjust = <<1, 1>> => IsFraction(drawn.xy[2], boxtop + boxheight - h, 1)

\* C16 witness: a text of some width was drawn at the right of a box that
\* is not at the origin.
C16_Witness ==
    /\ pc = "done"
    /\ hjust = <<1, 1>>
    /\ boxleft > 0
    /\ drawn.textwidth > 0
    /\ drawn.textwidth < boxwidth

\* C17: the align given to draw.multiline_text is "left" for hjust <= 0.25
\* (0, 0.1, 0.25), "right" for hjust >= 0.75 (0.75, 0.9, 1) and "center"
\* for the values strictly between (0.3, 0.5).
C17_AlignFromHjust ==
    pc \in {"done", "labelled"} =>
        /\ hjust \in {<<0, 1>>, <<1, 10>>, <<1, 4>>} => drawn.align = "left"
        /\ hjust \in {<<3, 10>>, <<1, 2>>} => drawn.align = "center"
        /\ hjust \in {<<3, 4>>, <<9, 10>>, <<1, 1>>} => drawn.align = "right"
        /\ drawn.align \in {"left", "center", "right"}

\* C17 witness: a text was drawn with hjust = 0.25, the boundary.
C17_Witness == pc = "done" /\ hjust = <<1, 4>> /\ drawn.align = "left"

---------------------------------------------------------------------------
(* Properties of the caches *)

\* an entry of a cache is in the cache after the step, with the same value
Kept(cache, cacheAfter) ==
    \A k \in DOMAIN cache : k \in DOMAIN cacheAfter /\ cacheAfter[k] = cache[k]

\* the number of calls of font.getsize for a key
MeasuresOf(calls, k) == IF k \in DOMAIN calls THEN calls[k] ELSE 0

\* C18: over any sequence of get_font and get_char_width calls no cache
\* entry is ever removed or changed, a call for a key that is in its cache
\* does not call the loader or the measurer, and so the loader has returned
\* a font exactly once for every key of FONT_CACHE (never for another key)
\* and the measurer has been called exactly once for every key of
\* CHAR_WIDTH_CACHE (never for another key).
C18_CachesOnlyGrow ==
    /\ [](/\ \A k \in DOMAIN truetype_calls :
                truetype_calls[k].returned =
                    (IF k \in DOMAIN FONT_CACHE THEN 1 ELSE 0)
          /\ DOMAIN FONT_CACHE \subseteq DOMAIN truetype_calls
          /\ \A k \in DOMAIN getsize_calls :
                getsize_calls[k] = (IF k \in DOMAIN CHAR_WIDTH_CACHE THEN 1 ELSE 0)
          /\ DOMAIN CHAR_WIDTH_CACHE \subseteq DOMAIN getsize_calls)
    /\ [][/\ Kept(FONT_CACHE, FONT_CACHE')
          /\ Kept(CHAR_WIDTH_CACHE, CHAR_WIDTH_CACHE')
          /\ \A k \in DOMAIN FONT_CACHE :
                CallsOf(truetype_calls', k) = CallsOf(truetype_calls, k)
          /\ \A k \in DOMAIN CHAR_WIDTH_CACHE :
                MeasuresOf(getsize_calls', k) = MeasuresOf(getsize_calls, k)]_vars

\* C18 witness: after two fonts were loaded and a width was measured, a call
\* was answered (the caller has asked as often as the model follows).
C18_Witness ==
    /\ cpc = "returned"
    /\ Cardinality(DOMAIN FONT_CACHE) >= 2
    /\ CHAR_WIDTH_CACHE # <<>>
    /\ LoaderCalls >= 3

\* the number of times the loader has raised
LoaderRaised ==
    SumOver([k \in DOMAIN truetype_calls |-> truetype_calls[k].raised],
            DOMAIN truetype_calls)

\* C19: in a get_font call in which the loader raises, get_font raises, the
\* loader is called that one time only and FONT_CACHE stays as it was.
C19_LoadFailurePropagates ==
    [][LoaderRaised' # LoaderRaised =>
           /\ cpc' = "raised"
           /\ LoaderCalls' = LoaderCalls + 1
           /\ FONT_CACHE' = FONT_CACHE]_vars

\* C19 witness: get_font has raised while another font was in the cache.
C19_Witness == cpc = "raised" /\ FONT_CACHE # <<>> /\ LoaderRaised >= 1

---------------------------------------------------------------------------
(* Properties of the wrap loop *)

\* the width of the token at index i (counted from 0) of the loop's tokens
TokenWidth(i) == WidthsOf(loop.tokens)[i + 1]

\* C20: every line the wrap loop emits takes at least one token (tokens
\* [start:end] with end > start), and a token wider than the budget that is on
\* it is its first token and its last: the line holds no other token and the
\* next line starts with the token behind it.  Every iteration moves on by
\* one token and its whitespace, within the tokens, so the loop finishes.
C20_OverwideTokenAloneAndProgress ==
    /\ [](wpc = "loop" =>
            /\ loop.index <= Len(loop.tokens)
            /\ loop.start <= loop.index)
    /\ [][wpc = "loop" =>
            /\ wpc' = "loop" => loop'.index = loop.index + 2
            /\ Len(lines') > Len(lines) =>
                 LET end == IF wpc' = "loop" THEN loop'.start ELSE Len(loop.tokens)
                 IN  /\ Len(lines') = Len(lines) + 1
                     /\ end > loop.start
                     /\ lines'[Len(lines')] =
                            Concat(SubSeq(loop.tokens, loop.start + 1, end))
                     /\ \A i \in loop.start..(end - 1) :
                            ((i - loop.start) % 2 = 0 /\ TokenWidth(i) > width)
                                => (i = loop.start /\ end = i + 2)]_vars

\* C20 witness: a text of one line with a word wider than the budget behind
\* another word has been wrapped.
C20_Witness ==
    /\ wpc = "wrapped"
    /\ \A i \in DOMAIN text : text[i] # "\n"
    /\ Len(Words(text, <<>>)) >= 3
    /\ LineWidth(Words(text, <<>>)[2], font) > width
    /\ LineWidth(Words(text, <<>>)[1], font) <= width

---------------------------------------------------------------------------
(* Properties of word_wrap on texts of several lines *)

\* the places of the line breaks that have text on both sides
InnerBreaks == {i \in 2..(Len(text) - 1) : text[i] = "\n"}

\* the text before and behind place i
Before(i) == SubSeq(text, 1, i - 1)
Behind(i) == SubSeq(text, i + 1, Len(text))

\* the lines of the text before place i followed by those of the text behind
WrappedApart(i) ==
    word_wrap(Before(i), width, font, <<>>) \o word_wrap(Behind(i), width, font, <<>>)

\* C21 as stated: for a text A + line break + B with A and B non-empty,
\* word_wrap returns the lines of A followed by the lines of B.
C21_Original ==
    wpc = "wrapped" => \A i \in InnerBreaks : lines = WrappedApart(i)

\* C21 as amended: the same, for A that does not end with a line break.
C21_LinesWrappedApart ==
    wpc = "wrapped" =>
        \A i \in InnerBreaks : text[i - 1] # "\n" => lines = WrappedApart(i)

\* C21 witness: a text of two lines, the first of them wrapped into two
\* lines, has been wrapped.
C21_Witness ==
    /\ wpc = "wrapped"
    /\ \E i \in InnerBreaks :
          /\ Len(word_wrap(Before(i), width, font, <<>>)) = 2
          /\ \A j \in DOMAIN text : j # i => text[j] # "\n"
          /\ Behind(i) # <<" ">>
    /\ Len(lines) = 3

\* C22: no line word_wrap returns starts or ends with a whitespace
\* character.
C22_LinesAreStripped ==
    wpc = "wrapped" =>
        \A i \in DOMAIN lines :
            lines[i] # <<>> =>
                (~IsSpace(lines[i][1]) /\ ~IsSpace(lines[i][Len(lines[i])]))

\* C22 witness: a text that starts and ends with whitespace and has
\* whitespace before a place where it is broken has been wrapped into
\* several lines.
C22_Witness ==
    /\ wpc = "wrapped"
    /\ Len(text) >= 4
    /\ IsSpace(text[1])
    /\ text[Len(text)] = " "
    /\ \A i \in DOMAIN text : text[i] # "\n"
    /\ Len(lines) >= 2
    /\ \E i \in DOMAIN lines : Len(lines[i]) >= 1

RECURSIVE RunWidth(_, _)
\* the width of the loop's tokens from index from up to, not including,
\* index to (counted from 0): words and whitespace runs alike
RunWidth(from, to) ==
    IF from >= to THEN 0 ELSE TokenWidth(from) + RunWidth(from + 1, to)

\* C23: in an iteration of the wrap loop a line is closed exactly when the
\* width of all tokens placed on it, whitespace runs included, plus the width
\* of the token at hand exceeds the budget.  The closed line is the tokens
\* from its start up to the token before the one the next line starts with;
\* that one is the token at hand unless the token at hand is the first of
\* its line; and the tokens of the closed line plus that one exceed the
\* budget.
C23_Greedy ==
    [][(wpc = "loop" /\ wpc' = "loop") =>
          LET i == loop.index
              end == loop'.start
              closes == Len(lines') > Len(lines)
          IN  /\ closes <=> RunWidth(loop.start, i) + TokenWidth(i) > width
              /\ ~closes => (lines' = lines /\ end = loop.start)
              /\ closes =>
                    /\ lines' = Append(lines, Concat(SubSeq(loop.tokens,
                                                            loop.start + 1, end)))
                    /\ i # loop.start => end = i
                    /\ end < Len(loop.tokens) =>
                           RunWidth(loop.start, end) + TokenWidth(end) > width]_vars

\* C23 witness: "a  b" was wrapped to 4 pixels in a font in which "a b"
\* is 4 pixels wide: the two spaces count, and the line is closed before b.
C23_Witness ==
    /\ wpc = "wrapped"
    /\ text = <<"a", " ", " ", "b">>
    /\ width = 4
    /\ font.ttf = "prop"
    /\ lines = << <<"a">>, <<"b">> >>

---------------------------------------------------------------------------
(* Further properties of the font-size search *)

NoDuplicates(list) ==
    \A i, j \in DOMAIN list : list[i] = list[j] => i = j

IsPrefix(list, longer) ==
    Len(list) <= Len(longer) /\ SubSeq(longer, 1, Len(list)) = list

\* the sizes attempted so far in the search
Attempted == Range(successful_sizes) \cup Range(unsuccessful_sizes)

\* C24: in a wrapping-mode search no size is in successful_sizes or
\* unsuccessful_sizes twice or in both; a step of the search only appends to
\* the two lists and adds to the two dicts; and the size it appends is the
\* size at hand, which was in neither list: no size is wrapped and measured
\* a second time.
C24_EachSizeTriedOnce ==
    /\ [](wrap => NoDuplicates(successful_sizes \o unsuccessful_sizes))
    /\ [][pc = "search" =>
            /\ IsPrefix(successful_sizes, successful_sizes')
            /\ IsPrefix(unsuccessful_sizes, unsuccessful_sizes')
            /\ Kept(cache_font, cache_font')
            /\ Kept(cache_wrapped, cache_wrapped')
            /\ (successful_sizes' # successful_sizes
                    \/ unsuccessful_sizes' # unsuccessful_sizes
                    \/ cache_font' # cache_font
                    \/ cache_wrapped' # cache_wrapped) =>
                   /\ fontsize \notin Attempted
                   /\ (successful_sizes' \o unsuccessful_sizes'
                          \in {Append(successful_sizes, fontsize) \o unsuccessful_sizes,
                               successful_sizes \o Append(unsuccessful_sizes, fontsize)})
            /\ fontsize \in Attempted =>
                   UNCHANGED <<CHAR_WIDTH_CACHE, FONT_CACHE, truetype_calls,
                               getsize_calls>>]_vars

\* C24 witness: a search that went down from 16, found a size that fits,
\* went up by the step and passed the sizes known not to fit on its way back
\* has ended.
C24_Witness ==
    /\ pc = "done"
    /\ wrap
    /\ font_trial_step_size = DefaultStep
    /\ Len(successful_sizes) = 1
    /\ Len(unsuccessful_sizes) >= DefaultStep
    /\ unsuccessful_sizes[1] = BaseFontSize
    /\ fontsize + DefaultStep \in Range(unsuccessful_sizes)

---------------------------------------------------------------------------
(* Properties of word_wrap_2 *)

\* the text with the character at place i replaced by a space
SpaceAt(i) == [text EXCEPT ![i] = " "]

\* the text with every line break replaced by a space
Reflowed == [i \in DOMAIN text |-> IF text[i] = "\n" THEN " " ELSE text[i]]

\* C25: word_wrap_2 returns the lines of word_wrap on the text with every
\* line break replaced by a space, joined by line breaks; it returns the same
\* for the text with one of its line breaks replaced by a space.
C25_Reflows ==
    wpc = "wrapped2" =>
        /\ outtext = JoinWith("\n", word_wrap(Reflowed, width, font, <<>>))
        /\ \A i \in DOMAIN text :
               text[i] = "\n" => outtext = word_wrap_2(SpaceAt(i), width, font, <<>>)

\* C25 witness: a text of two lines of one word each came back as one line.
C25_Witness ==
    /\ wpc = "wrapped2"
    /\ Len(text) = 3
    /\ text[2] = "\n"
    /\ ~IsSpace(text[1])
    /\ ~IsSpace(text[3])
    /\ outtext = SpaceAt(2)

\* C26: with a step k >= 1, when the search has ended with size s, the
\* wrapped text fits at s, and each of s+1, ..., s+k is in unsuccessful_sizes
\* and does not fit; when fitting is monotone in the size, no size above s
\* fits.
C26_LocalMaximum ==
    (Chosen /\ font_trial_step_size >= 1) =>
        /\ FitsAt(fontsize)
        /\ fontsize \in Range(successful_sizes)
        /\ \A s \in (fontsize + 1)..(fontsize + font_trial_step_size) :
               /\ s \in Range(unsuccessful_sizes)
               /\ s \notin Range(successful_sizes)
               /\ ~FitsAt(s)
        /\ (\A n \in 2..MaxFontSize : FitsAt(n) => FitsAt(n - 1)) =>
               \A s \in (fontsize + 1)..MaxFontSize : ~FitsAt(s)

\* C26 witness: a search with step 5 that went up from 16, found the next
\* five sizes too big on its way back and ended above 16.
C26_Witness ==
    /\ Chosen
    /\ font_trial_step_size = DefaultStep
    /\ fontsize > BaseFontSize
    /\ Len(successful_sizes) >= 2
    /\ Len(unsuccessful_sizes) >= DefaultStep
    /\ ttf = "prop"

---------------------------------------------------------------------------
(* Further properties of justification *)

\* the fraction r is at least the number n / at most the number n
AtLeast(r, n) == r[1] >= n * r[2]
AtMost(r, n) == r[1] <= n * r[2]

\* the fraction r plus the number n
Plus(r, n) == <<r[1] + n * r[2], r[2]>>

\* C27: on each axis, text that add_boxed_text draws with a justification
\* from 0 to 1 and that is no larger than the box lies wholly inside the box:
\* it starts at or behind the start of the box and ends at or before its end.
C27_DrawnInsideBox ==
    pc = "done" =>
        /\ (drawn.textwidth >= 0 /\ drawn.textwidth <= boxwidth) =>
               /\ AtLeast(drawn.xy[1], boxleft)
               /\ AtMost(Plus(drawn.xy[1], drawn.textwidth), boxleft + boxwidth)
        /\ (drawn.textheight >= 0 /\ drawn.textheight <= boxheight) =>
               /\ AtLeast(drawn.xy[2], boxtop)
               /\ AtMost(Plus(drawn.xy[2], drawn.textheight), boxtop + boxheight)

\* C27 witness: text smaller than its box was drawn near the right and at
\* the bottom of a box that is not at the origin.
C27_Witness ==
    /\ pc = "done"
    /\ hjust = <<9, 10>>
    /\ vjust = <<1, 1>>
    /\ boxleft > 0
    /\ boxtop > 0
    /\ drawn.textwidth > 0
    /\ drawn.textwidth < boxwidth
    /\ drawn.textheight < boxheight

---------------------------------------------------------------------------
(* Empty lines *)

\* the explicit line the wrap loop is working on
LineAtHand == Concat(loop.tokens)

\* a string starts or ends with whitespace
HasOuterSpace(str) == str # <<>> /\ (IsSpace(str[1]) \/ IsSpace(str[Len(str)]))

\* the text is one explicit line
IsOneLine == \A i \in DOMAIN text : text[i] # "\n"

\* the loop emits a line that line 1131 strips to the empty string
EmitsEmptyLine ==
    /\ wpc = "loop"
    /\ Len(lines') > Len(lines)
    /\ strip(lines'[Len(lines')]) = <<>>

\* C28 as stated: the loop emits a line that is empty once stripped only
\* for an explicit line with no word, and a text of one such line
\* comes back in no more lines than it has words and with no empty line.
C28_Original ==
    /\ [][EmitsEmptyLine => Words(LineAtHand, <<>>) = <<>>]_vars
    /\ []((wpc = "wrapped" /\ IsOneLine /\ Words(text, <<>>) # <<>>) =>
             /\ Len(lines) <= Len(Words(text, <<>>))
             /\ \A i \in DOMAIN lines : lines[i] # <<>>)

\* C28 as amended: the loop emits a line that is empty once stripped only
\* for an explicit line with no word or with whitespace at its start or end,
\* and a text of one line with a word and no such whitespace comes back in
\* no more lines than it has words and with no empty line.
C28_NoEmptyLineWithoutOuterSpace ==
    /\ [][EmitsEmptyLine =>
              (Words(LineAtHand, <<>>) = <<>> \/ HasOuterSpace(LineAtHand))]_vars
    /\ []((wpc = "wrapped" /\ IsOneLine /\ Words(text, <<>>) # <<>>
               /\ ~HasOuterSpace(text)) =>
             /\ Len(lines) <= Len(Words(text, <<>>))
             /\ \A i \in DOMAIN lines : lines[i] # <<>>)

\* C28 witness: a line of three words with nothing around them came back as
\* three lines.
C28_Witness ==
    /\ wpc = "wrapped"
    /\ IsOneLine
    /\ ~HasOuterSpace(text)
    /\ Len(Words(text, <<>>)) = 3
    /\ Len(lines) = 3

===========================================================================
